---- MODULE Spec2Model ----
(***************************************************************************)
(* The node actor of p2pool-v2: NodeHandle (src/node/actor.rs), the        *)
(* NodeActor::run select loop (src/node/actor.rs) and the Node's command   *)
(* and swarm-event handlers (src/node/mod.rs).                             *)
(*                                                                         *)
(* Library semantics the code relies on, modelled from their contracts:    *)
(*  - tokio mpsc::channel(n): FIFO; send() waits for one of n permits,     *)
(*    permits are handed out in request order; send() fails once the       *)
(*    receiver is dropped; recv() yields None once the queue is empty and  *)
(*    every sender is dropped; dropping the receiver drops what is queued. *)
(*  - tokio oneshot: send() fails when the receiver was dropped; the       *)
(*    receiver yields an error when the sender is dropped without a send.  *)
(*  - Result::unwrap() on Err panics, which ends the actor task and drops  *)
(*    everything it owns.                                                  *)
(***************************************************************************)
EXTENDS Naturals, Sequences, FiniteSets

VARIABLES
    last_event,     \* observer: kind of the swarm event dispatched last, n flips at every recorded dispatch
    construction,   \* what NodeHandle::new did: "returned_ok", "returned_err" or "panicked"
    actor,          \* position of NodeActor::run: "NotSpawned", "Running", "Stopped" (returned), "Panicked" (an unwrap failed)
    handles,        \* number of live NodeHandle clones (senders of the command channel)
    clones,         \* NodeHandle::clone calls made
    calls,          \* every NodeHandle method call made so far, indexed in submission order
    command_q,      \* the mpsc channel between command_tx and command_rx: call indices, oldest first
    stopping,       \* the one-shot termination channel (stopping_tx / stopping_rx)
    conns,          \* swarm: open connections per peer; connected_peers() are those with at least one
    established,    \* ConnectionEstablished events dispatched per peer
    routing,        \* behaviour address book: <<peer, address>> pairs
    tip,            \* chain.tip
    sent,           \* requests handed to request_response.send_request, in order
    published,      \* gossipsub.publish calls made
    dialed,         \* swarm.dial calls made by handle_mdns_event, in order
    disconnected,   \* peers passed to swarm.disconnect_peer_id
    processed       \* call indices in the order command_rx.recv() yielded them

vars == <<last_event, construction, actor, handles, clones, calls, command_q, stopping, conns, established,
          routing, tip, sent, published, dialed, disconnected, processed>>

netVars == <<conns, established, routing, dialed>>
nodeVars == <<conns, established, routing, tip, sent, published, dialed, disconnected>>

----------------------------------------------------------------------------
(* Bounds of the model *)

MaxInputs == 3
MaxDiscovered == 2

(* mpsc::channel::<Command>(32) *)
Capacity == 32

(* enough calls to fill the command channel and leave senders waiting *)
BurstCalls == Capacity + 2

Peers == {"p1", "p2"}
Targets == {"p1"}
Addrs == {"a1"}
Shares == {"s1"}
NoTip == "None"
NoPeer == "-"
NoShare == "-"

Kinds == {"GetPeers", "SendGossip", "SendToPeer", "Shutdown", "AddShare", "StoreWorkbase"}

----------------------------------------------------------------------------
(* Values *)

NoReply == [tag |-> "none", peers |-> {}]
Unit == [tag |-> "unit", peers |-> {}]
OkReply == [tag |-> "ok", peers |-> {}]
ErrReply(text) == [tag |-> "err", peers |-> {}, error |-> text]
PeersReply(ps) == [tag |-> "peers", peers |-> ps]

Inventory(have_shares) == [type |-> "Inventory", have_shares |-> have_shares]
AppMessage == [type |-> "App", have_shares |-> <<>>]

(* inputs consumed so far: NodeHandle calls and clones made, ConnectionEstablished
   events dispatched and dials made for discovered peers *)
InputsUsed == Len(calls) + clones + established["p1"] + established["p2"] + Len(dialed)

Min(S) == CHOOSE x \in S : \A y \in S : x <= y

----------------------------------------------------------------------------
(* The command channel and the reply slots *)

(* Command: one variant plus its single-use reply channel (tx in the command, rx with the caller) *)
NewCall(kind, peer, share) ==
    [kind |-> kind, peer |-> peer, share |-> share,
     phase |-> "sending",      \* sending, queued, taken, failed (send returned Err), cancelled, dropped
     rx |-> TRUE,              \* the caller still holds the reply receiver
     reply |-> NoReply,        \* the value the actor passed to tx.send
     delivered |-> FALSE,      \* tx.send returned Ok
     sends |-> 0,              \* tx.send calls made on this slot
     collab |-> "none",        \* what the Chain/Store/gossipsub call made for it returned
     cause |-> "none",         \* the error the Chain/Store call returned, if it failed
     attempts |-> 0]           \* Chain/Store calls made for it

(* a channel that admits one command more than its capacity *)
CanEnqueueOneMore(q) == Len(q) <= Capacity

(* mpsc::channel(32): a permit is free *)
CanEnqueue(q) == Len(q) < Capacity

(* a receiver that yields the newest command first *)
DequeueNewest(q) == q[Len(q)]

(* command_rx.recv(): the oldest command *)
Dequeue(q) == Head(q)

Rest(q, c) == SelectSeq(q, LAMBDA x : x # c)

(* a receiver whose drop leaves the queued commands alive *)
KeepQueued(cs) == cs

(* Dropping command_rx drops every queued Command and with it its reply sender *)
DropQueued(cs) ==
    [i \in DOMAIN cs |-> IF cs[i].phase = "queued" THEN [cs[i] EXCEPT !.phase = "dropped"] ELSE cs[i]]

(* stopping_tx dropped without a send: the receiver sees the channel closed *)
DropSender(st) == IF st.rx = "waiting" /\ st.sends = 0 THEN [st EXCEPT !.rx = "closed"] ELSE st

(* the future of call c is still held by its caller, which borrows the handle *)
Awaiting(call) == call.rx /\ call.phase \in {"sending", "queued"}

Waiters == {i \in DOMAIN calls : calls[i].phase = "sending"}

(* What NodeHandle::get_peers/shutdown/send_gossip/send_to_peer/add_share/store_workbase
   return: `send(..).await?` then `match rx.await { Ok(v) => Ok(..), Err(e) => Err(e.into()) }` *)
HandleResult(call) ==
    CASE call.phase = "failed" -> [tag |-> "comm_err", peers |-> {}]
      [] ~call.rx -> [tag |-> "abandoned", peers |-> {}]
      [] call.phase = "dropped" -> [tag |-> "comm_err", peers |-> {}]
      [] call.phase = "taken" ->
            IF call.kind = "GetPeers" THEN [tag |-> "ok", peers |-> call.reply.peers]
            ELSE [tag |-> "ok", peers |-> {}]
      [] OTHER -> [tag |-> "pending", peers |-> {}]

----------------------------------------------------------------------------
(* Node: command side (src/node/mod.rs) *)

(* a snapshot that also lists peers whose connections are all closed *)
known_peers(cn) == {p \in Peers : cn[p] >= 0}

connected_peers(cn) == {p \in Peers : cn[p] > 0}

send_to_peer(s, peer_id, message) == Append(s, [to |-> peer_id, msg |-> message])

(* an announcement that is repeated *)
send_inventory_twice(s, peer_id, t) ==
    IF t # NoTip
    THEN send_to_peer(send_to_peer(s, peer_id, Inventory(<<t>>)), peer_id, Inventory(<<t>>))
    ELSE s

(* an announcement that does not look at the tip *)
send_inventory_always(s, peer_id, t) ==
    send_to_peer(s, peer_id, Inventory(IF t # NoTip THEN <<t>> ELSE <<>>))

send_inventory(s, peer_id, t) ==
    IF t # NoTip THEN send_to_peer(s, peer_id, Inventory(<<t>>)) ELSE s

(* Node::shutdown: disconnect_peer_id for every connected peer, failures ignored *)
shutdown(d, cn) == d \cup connected_peers(cn)

----------------------------------------------------------------------------
(* Node::new: parsing and binding config.network.listen_address are the fallible
   steps (`?`); bootstrap dials and the topic subscription only log *)
NodeNew(listen_ok) == IF listen_ok THEN "Ok" ELSE "Err"

(* NodeActor::new: `let node = Node::new(&config)?;` *)
NodeActorNew(listen_ok) == NodeNew(listen_ok)

(* NodeHandle::new: `NodeActor::new(config, command_rx).unwrap()`, then spawn *)
NodeHandleNew(listen_ok) ==
    IF NodeActorNew(listen_ok) = "Ok" THEN "returned_ok" ELSE "panicked"

(* The state NodeHandle::new leaves behind *)
Init ==
    /\ last_event = [kind |-> "none", n |-> 0]
    /\ \E listen_ok \in BOOLEAN : construction = NodeHandleNew(listen_ok)
    /\ actor = IF construction = "returned_ok" THEN "Running" ELSE "NotSpawned"
    /\ handles = IF construction = "returned_ok" THEN 1 ELSE 0
    /\ clones = 0
    /\ calls = <<>>
    /\ command_q = <<>>
    /\ stopping = [sends |-> 0, rx |-> IF construction = "returned_ok" THEN "waiting" ELSE "none"]
    /\ conns = [p \in Peers |-> 0]
    /\ established = [p \in Peers |-> 0]
    /\ routing = {}
    /\ tip \in {NoTip, "s1"}
    /\ sent = <<>>
    /\ published = 0
    /\ dialed = <<>>
    /\ disconnected = {}
    /\ processed = <<>>

----------------------------------------------------------------------------
(* NodeHandle and its callers *)

(* a handle that publishes on the swarm itself before it sends the command *)
CallTouchingNode(budget, kind, peer, share) ==
    /\ handles > 0
    /\ InputsUsed < budget
    /\ LET c == Len(calls) + 1
           phase == IF actor # "Running" THEN "failed"
                    ELSE IF CanEnqueue(command_q) /\ Waiters = {} THEN "queued"
                    ELSE "sending"
       IN  /\ calls' = Append(calls, [NewCall(kind, peer, share) EXCEPT !.phase = phase])
           /\ command_q' = IF phase = "queued" THEN Append(command_q, c) ELSE command_q
    /\ published' = IF kind = "SendGossip" THEN published + 1 ELSE published
    /\ UNCHANGED <<last_event, construction, actor, handles, clones, stopping, netVars, tip, sent,
                   disconnected, processed>>

(* A NodeHandle method: create the reply channel and poll command_tx.send(Command):
   Err when command_rx is gone; queued at once when a permit is free and nobody
   waits for one; otherwise the caller joins the waiters *)
CallWithin(budget, kind, peer, share) ==
    /\ handles > 0
    /\ InputsUsed < budget
    /\ LET c == Len(calls) + 1
           phase == IF actor # "Running" THEN "failed"
                    ELSE IF CanEnqueue(command_q) /\ Waiters = {} THEN "queued"
                    ELSE "sending"
       IN  /\ calls' = Append(calls, [NewCall(kind, peer, share) EXCEPT !.phase = phase])
           /\ command_q' = IF phase = "queued" THEN Append(command_q, c) ELSE command_q
    /\ UNCHANGED <<last_event, construction, actor, handles, clones, stopping, nodeVars, processed>>

Call(kind, peer, share) == CallWithin(MaxInputs, kind, peer, share)

get_peers == Call("GetPeers", NoPeer, NoShare)
handle_shutdown == Call("Shutdown", NoPeer, NoShare)
handle_send_gossip == Call("SendGossip", NoPeer, NoShare)
handle_send_to_peer(p) == Call("SendToPeer", p, NoShare)
add_share(s) == Call("AddShare", NoPeer, s)
store_workbase == Call("StoreWorkbase", NoPeer, NoShare)

(* A waiting command_tx.send(..) completes: Err when command_rx is gone, else the
   command is queued once a permit is free (permits go to the oldest waiter) *)
SendCmd(c) ==
    /\ c \in Waiters
    /\ IF actor # "Running"
         THEN /\ calls' = [calls EXCEPT ![c].phase = "failed"]
              /\ UNCHANGED command_q
         ELSE /\ c = Min(Waiters)
              /\ CanEnqueue(command_q)
              /\ command_q' = Append(command_q, c)
              /\ calls' = [calls EXCEPT ![c].phase = "queued"]
    /\ UNCHANGED <<last_event, construction, actor, handles, clones, stopping, nodeVars, processed>>

(* The caller drops the future of call c before it resolves *)
Abandon(c) ==
    /\ c \in DOMAIN calls
    /\ Awaiting(calls[c])
    /\ calls' = [calls EXCEPT ![c].rx = FALSE,
                              ![c].phase = IF @ = "sending" THEN "cancelled" ELSE @]
    /\ UNCHANGED <<last_event, construction, actor, handles, clones, command_q, stopping, nodeVars, processed>>

(* #[derive(Clone)] *)
CloneHandle ==
    /\ handles > 0
    /\ InputsUsed < MaxInputs
    /\ handles' = handles + 1
    /\ clones' = clones + 1
    /\ UNCHANGED <<last_event, construction, actor, calls, command_q, stopping, nodeVars, processed>>

(* A method's future borrows its handle: the last handle outlives every call
   that is still awaited *)
DropHandle ==
    /\ handles > 0
    /\ handles = 1 => \A i \in DOMAIN calls : ~Awaiting(calls[i])
    /\ handles' = handles - 1
    /\ UNCHANGED <<last_event, construction, actor, clones, calls, command_q, stopping, nodeVars, processed>>

----------------------------------------------------------------------------
(* Chain / Store collaborators (crate::shares, outside this component) *)

(* what a Chain/Store call returns: Ok, or Err with its cause *)
Causes == {"io"}

Outcomes == {[res |-> "ok", cause |-> "none"]} \cup {[res |-> "err", cause |-> k] : k \in Causes}

(* Chain::add_share: on success the share may have become the tip *)
ChainAddShare(t, share, res) == IF res = "ok" THEN {t, share} ELSE {t}

----------------------------------------------------------------------------
(* NodeActor::run, the command branch of the select *)

(* a select that polls the event branch first: the command branch is reached
   only when the swarm has no event ready, and while the actor runs it has one *)
ReadyBehindEvents == actor = "Running" /\ command_q # <<>> /\ actor # "Running"

Ready == actor = "Running" /\ command_q # <<>>

(* an arm that takes the command and forgets to reply: the reply sender is
   dropped at the end of the arm and the loop goes on *)
FinishWithoutReply(c, cs, v, returns) ==
    /\ processed' = Append(processed, c)
    /\ calls' = IF returns THEN DropQueued([cs EXCEPT ![c].phase = "taken"])
                 ELSE [cs EXCEPT ![c].phase = "taken"]
    /\ command_q' = IF returns THEN <<>> ELSE Rest(command_q, c)
    /\ actor' = IF returns THEN "Stopped" ELSE "Running"
    /\ stopping' = IF returns THEN DropSender(stopping) ELSE stopping

(* an arm that ignores a failed reply send and goes on *)
FinishIgnoringSendError(c, cs, v, returns) ==
    LET cs1 == [cs EXCEPT ![c].phase = "taken", ![c].reply = v,
                          ![c].delivered = cs[c].rx, ![c].sends = @ + 1]
    IN  /\ processed' = Append(processed, c)
        /\ calls' = IF returns THEN DropQueued(cs1) ELSE cs1
        /\ command_q' = IF returns THEN <<>> ELSE Rest(command_q, c)
        /\ actor' = IF returns THEN "Stopped" ELSE "Running"
        /\ stopping' = IF returns THEN DropSender(stopping) ELSE stopping

(* The end of a match arm: `tx.send(v).unwrap()`, then either the next loop
   iteration, `return` (returns = TRUE) or the panic of the unwrap.  Leaving
   run() drops the NodeActor: command_rx with what is queued, and stopping_tx. *)
Finish(c, cs, v, returns) ==
    LET ok == cs[c].rx
        stops == returns \/ ~ok
        cs1 == [cs EXCEPT ![c].phase = "taken", ![c].reply = v,
                          ![c].delivered = ok, ![c].sends = @ + 1]
    IN  /\ processed' = Append(processed, c)
        /\ calls' = IF stops THEN DropQueued(cs1) ELSE cs1
        /\ command_q' = IF stops THEN <<>> ELSE Rest(command_q, c)
        /\ actor' = IF ~ok THEN "Panicked" ELSE IF returns THEN "Stopped" ELSE "Running"
        /\ stopping' = IF stops THEN DropSender(stopping) ELSE stopping

OnGetPeers ==
    /\ Ready
    /\ LET c == Dequeue(command_q) IN
        /\ calls[c].kind = "GetPeers"
        /\ Finish(c, calls, PeersReply(connected_peers(conns)), FALSE)
    /\ UNCHANGED <<last_event, construction, handles, clones, nodeVars>>

(* gossipsub.publish may fail (no subscribed peers, ...): the error is logged *)
OnSendGossip ==
    /\ Ready
    /\ LET c == Dequeue(command_q) IN
        /\ calls[c].kind = "SendGossip"
        /\ published' = published + 1
        /\ \E res \in {"ok", "err"} :
              Finish(c, [calls EXCEPT ![c].collab = res], Unit, FALSE)
    /\ UNCHANGED <<last_event, construction, handles, clones, netVars, tip, sent, disconnected>>

OnSendToPeer ==
    /\ Ready
    /\ LET c == Dequeue(command_q) IN
        /\ calls[c].kind = "SendToPeer"
        /\ sent' = send_to_peer(sent, calls[c].peer, AppMessage)
        /\ Finish(c, calls, Unit, FALSE)
    /\ UNCHANGED <<last_event, construction, handles, clones, netVars, tip, published, disconnected>>

OnShutdown ==
    /\ Ready
    /\ LET c == Dequeue(command_q) IN
        /\ calls[c].kind = "Shutdown"
        /\ disconnected' = shutdown(disconnected, conns)
        /\ Finish(c, calls, Unit, TRUE)
    /\ UNCHANGED <<last_event, construction, handles, clones, netVars, tip, sent, published>>

OnAddShare ==
    /\ Ready
    /\ LET c == Dequeue(command_q) IN
        /\ calls[c].kind = "AddShare"
        /\ \E o \in Outcomes :
            /\ tip' \in ChainAddShare(tip, calls[c].share, o.res)
            /\ Finish(c, [calls EXCEPT ![c].collab = o.res, ![c].cause = o.cause,
                                       ![c].attempts = @ + 1],
                      IF o.res = "ok" THEN OkReply ELSE ErrReply("Error adding share to chain"),
                      FALSE)
    /\ UNCHANGED <<last_event, construction, handles, clones, netVars, sent, published, disconnected>>

OnStoreWorkbase ==
    /\ Ready
    /\ LET c == Dequeue(command_q) IN
        /\ calls[c].kind = "StoreWorkbase"
        /\ \E o \in Outcomes :
            /\ Finish(c, [calls EXCEPT ![c].collab = o.res, ![c].cause = o.cause,
                                       ![c].attempts = @ + 1],
                      IF o.res = "ok" THEN OkReply ELSE ErrReply("Error storing workbase"),
                      FALSE)
    /\ UNCHANGED <<last_event, construction, handles, clones, nodeVars>>

(* recv() yields None: every NodeHandle is dropped and nothing is queued.
   stopping_tx.send(()).unwrap(): the send fails, and the unwrap panics, when the
   owner of stopping_rx has dropped it by then *)
OnChannelClosed ==
    /\ actor = "Running"
    /\ command_q = <<>>
    /\ handles = 0
    /\ \E rx_held \in BOOLEAN :
        /\ stopping' = [sends |-> stopping.sends + 1, rx |-> IF rx_held THEN "fired" ELSE "dropped"]
        /\ actor' = IF rx_held THEN "Stopped" ELSE "Panicked"
    /\ UNCHANGED <<last_event, construction, handles, clones, calls, command_q, nodeVars, processed>>

----------------------------------------------------------------------------
(* P2PoolBehaviour (src/node/behaviour.rs, outside this component): the
   routing-table address book *)

add_address(rt, peer_id, addr) == rt \cup {<<peer_id, addr>>}

remove_peer(rt, peer_id) == {e \in rt : e[1] # peer_id}

----------------------------------------------------------------------------
(* Node::handle_swarm_event, the event branch of the select *)


(* a pass over the list that registers the address whatever swarm.dial returned *)
RECURSIVE mdns_register_always(_, _, _, _)
mdns_register_always(list, oks, cn, st) ==
    IF list = <<>> THEN st
    ELSE LET peer_id == Head(list)[1]
             addr == Head(list)[2]
             st1 == IF cn[peer_id] > 0 THEN st
                    ELSE [routing |-> st.routing \cup {<<peer_id, addr>>},
                          dialed |-> Append(st.dialed,
                                            [peer |-> peer_id, addr |-> addr, ok |-> Head(oks)])]
         IN  mdns_register_always(Tail(list), Tail(oks), cn, st1)

(* handle_mdns_event, Discovered: one pass over the list; oks[i] is the outcome
   of swarm.dial for entry i if it is dialled *)
RECURSIVE mdns_discovered(_, _, _, _)
mdns_discovered(list, oks, cn, st) ==
    IF list = <<>> THEN st
    ELSE LET peer_id == Head(list)[1]
             addr == Head(list)[2]
             st1 == IF cn[peer_id] > 0 THEN st
                    ELSE [routing |-> IF Head(oks) THEN add_address(st.routing, peer_id, addr)
                                      ELSE st.routing,
                          dialed |-> Append(st.dialed,
                                            [peer |-> peer_id, addr |-> addr, ok |-> Head(oks)])]
         IN  mdns_discovered(Tail(list), Tail(oks), cn, st1)

(* handle_identify_event, Received: every advertised listen address is registered *)
identify_received(rt, peer_id, listen_addrs) == rt \cup {<<peer_id, a>> : a \in listen_addrs}

Lists(S, n) == UNION {[1..k -> S] : k \in 1..n}

EvNewListenAddr ==
    /\ actor = "Running"
    /\ UNCHANGED <<construction, actor, handles, clones, calls, command_q, stopping, nodeVars, processed>>

(* The swarm has added the connection when it yields the event *)
EvConnectionEstablished(peer_id) ==
    /\ actor = "Running"
    /\ InputsUsed < MaxInputs
    /\ conns' = [conns EXCEPT ![peer_id] = @ + 1]
    /\ established' = [established EXCEPT ![peer_id] = @ + 1]
    /\ sent' = send_inventory(sent, peer_id, tip)
    /\ UNCHANGED <<construction, actor, handles, clones, calls, command_q, stopping, routing, tip,
                   published, dialed, disconnected, processed>>

(* a close handler that only logs *)
EvConnectionClosedLogged(peer_id) ==
    /\ actor = "Running"
    /\ conns[peer_id] > 0
    /\ conns' = [conns EXCEPT ![peer_id] = @ - 1]
    /\ UNCHANGED <<construction, actor, handles, clones, calls, command_q, stopping, established,
                   routing, tip, sent, published, dialed, disconnected, processed>>

EvConnectionClosed(peer_id) ==
    /\ actor = "Running"
    /\ conns[peer_id] > 0
    /\ conns' = [conns EXCEPT ![peer_id] = @ - 1]
    /\ routing' = remove_peer(routing, peer_id)
    /\ UNCHANGED <<construction, actor, handles, clones, calls, command_q, stopping, established, tip,
                   sent, published, dialed, disconnected, processed>>

EvMdnsDiscovered(list, oks) ==
    /\ actor = "Running"
    /\ LET st == mdns_discovered(list, oks, conns, [routing |-> routing, dialed |-> dialed]) IN
        /\ InputsUsed + (Len(st.dialed) - Len(dialed)) <= MaxInputs
        /\ routing' = st.routing
        /\ dialed' = st.dialed
    /\ UNCHANGED <<construction, actor, handles, clones, calls, command_q, stopping, conns, established, tip,
                   sent, published, disconnected, processed>>

EvIdentifyReceived(peer_id, listen_addrs) ==
    /\ actor = "Running"
    /\ routing' = identify_received(routing, peer_id, listen_addrs)
    /\ UNCHANGED <<construction, actor, handles, clones, calls, command_q, stopping, conns, established, tip,
                   sent, published, dialed, disconnected, processed>>

(* Events that are only logged: other mdns and identify events, every kademlia,
   gossipsub and request-response event, and unmatched swarm events *)
LogOnly == {"MdnsOther", "IdentifyOther", "Kademlia", "Gossipsub", "RequestResponse", "Other"}

(* a dispatch that decodes an inbound gossip payload and hands it to the chain *)
EvGossipToChain(what) ==
    /\ actor = "Running"
    /\ tip' = IF what = "Gossipsub" THEN "s1" ELSE tip
    /\ UNCHANGED <<construction, actor, handles, clones, calls, command_q, stopping, netVars,
                   sent, published, disconnected, processed>>

EvLogOnly(what) ==
    /\ actor = "Running"
    /\ UNCHANGED <<construction, actor, handles, clones, calls, command_q, stopping, nodeVars, processed>>

----------------------------------------------------------------------------
CallStep ==
    \/ get_peers
    \/ handle_shutdown
    \/ handle_send_gossip
    \/ \E p \in Targets : handle_send_to_peer(p)
    \/ \E s \in Shares : add_share(s)
    \/ store_workbase

CallerStep ==
    \/ \E c \in DOMAIN calls : Abandon(c)
    \/ CloneHandle
    \/ DropHandle

CommandStep ==
    \/ OnGetPeers
    \/ OnSendGossip
    \/ OnSendToPeer
    \/ OnShutdown
    \/ OnAddShare
    \/ OnStoreWorkbase
    \/ OnChannelClosed

ConnectionStep ==
    /\ \E p \in Peers : EvConnectionEstablished(p) \/ EvConnectionClosed(p)
    /\ UNCHANGED last_event

DiscoveryStep ==
    /\ \/ \E list \in Lists(Peers \X Addrs, MaxDiscovered) :
             \E oks \in [1..Len(list) -> BOOLEAN] : EvMdnsDiscovered(list, oks)
       \/ \E p \in Peers : \E as \in SUBSET Addrs : EvIdentifyReceived(p, as)
    /\ UNCHANGED last_event

LogStep ==
    /\ \/ EvNewListenAddr
       \/ \E what \in LogOnly : EvLogOnly(what)
    /\ UNCHANGED last_event

(* Every NodeHandle operation, with the connection events of the swarm.  With
   at most MaxInputs calls a permit is always free, so no send() ever waits. *)
Next == CallStep \/ CallerStep \/ CommandStep \/ ConnectionStep \/ LogStep

Spec == Init /\ [][Next]_vars

(* Every swarm event, with the commands that read or change what events act on *)
NextNet ==
    \/ get_peers
    \/ \E s \in Shares : add_share(s)
    \/ OnGetPeers
    \/ OnAddShare
    \/ ConnectionStep
    \/ DiscoveryStep
    \/ LogStep

SpecNet == Init /\ [][NextNet]_vars

(* A burst of get_peers calls that fills the command channel.  The select polls
   its ready branches in random order, so a command branch that stays ready is
   taken eventually; a sender that holds a permit completes its send. *)
burst_get_peers == CallWithin(BurstCalls, "GetPeers", NoPeer, NoShare)

NextBurst ==
    \/ burst_get_peers
    \/ \E c \in DOMAIN calls : SendCmd(c)
    \/ OnGetPeers
    \/ LogStep

SpecBurst ==
    /\ Init
    /\ [][NextBurst]_vars
    /\ WF_vars(OnGetPeers)
    /\ WF_vars(\E c \in DOMAIN calls : SendCmd(c))

(* The event branch with an observer that records each dispatch *)
Observe(kind) == last_event' = [kind |-> kind, n |-> 1 - last_event.n]

ObservedStep ==
    \/ EvNewListenAddr /\ Observe("NewListenAddr")
    \/ \E p \in Peers : EvConnectionEstablished(p) /\ Observe("ConnectionEstablished")
    \/ \E p \in Peers : EvConnectionClosed(p) /\ Observe("ConnectionClosed")
    \/ \E e \in Peers \X Addrs : \E ok \in BOOLEAN :
          EvMdnsDiscovered(<<e>>, <<ok>>) /\ Observe("MdnsDiscovered")
    \/ \E p \in Peers : \E as \in SUBSET Addrs :
          EvIdentifyReceived(p, as) /\ Observe("IdentifyReceived")
    \/ \E what \in LogOnly : EvLogOnly(what) /\ Observe(what)

(* Discovery events observed with what was discovered, among connection events *)
ObserveDiscovered(list) ==
    last_event' = [kind |-> "MdnsDiscovered", n |-> 1 - last_event.n, list |-> list]

DiscoveredStep ==
    \E list \in Lists(Peers \X Addrs, MaxDiscovered) :
        \E oks \in [1..Len(list) -> BOOLEAN] :
            EvMdnsDiscovered(list, oks) /\ ObserveDiscovered(list)

NextDiscovery == ConnectionStep \/ DiscoveredStep \/ LogStep

SpecDiscovery == Init /\ [][NextDiscovery]_vars

(* A swarm that has an event ready at every iteration, next to callers.  The
   select polls its ready branches in random order, so a command branch that
   stays ready is taken eventually. *)
EventStream ==
    \/ EvNewListenAddr /\ Observe("NewListenAddr")
    \/ \E what \in LogOnly : EvLogOnly(what) /\ Observe(what)

NextStream ==
    \/ get_peers
    \/ handle_send_gossip
    \/ \E c \in DOMAIN calls : Abandon(c)
    \/ OnGetPeers
    \/ OnSendGossip
    \/ EventStream

SpecStream ==
    /\ Init
    /\ [][NextStream]_vars
    /\ WF_vars(OnGetPeers \/ OnSendGossip)

(* Every swarm event, observed, next to commands that wait in the channel and
   to the closing of the channel *)
NextEvents ==
    \/ get_peers
    \/ DropHandle
    \/ OnGetPeers
    \/ OnChannelClosed
    \/ ObservedStep

SpecEvents == Init /\ [][NextEvents]_vars

----------------------------------------------------------------------------
(* Properties *)

Taken(c) == calls[c].phase = "taken"

Terminated == actor \in {"Stopped", "Panicked"}

(* C1: once a Shutdown command is processed, a disconnect was requested for every
   connected peer, the reply was sent, the actor has terminated, and the actor
   sent on the termination channel exactly once. *)
C1_ShutdownFiresTermination ==
    \A c \in DOMAIN calls :
        (calls[c].kind = "Shutdown" /\ Taken(c)) =>
            /\ {p \in Peers : conns[p] > 0} \subseteq disconnected
            /\ calls[c].sends = 1
            /\ Terminated
            /\ stopping.sends = 1

(* C2: add_share and store_workbase return success to the caller exactly when the
   Chain/Store call succeeded. *)
C2_ResultMirrorsCollaborator ==
    \A c \in DOMAIN calls :
        (calls[c].kind \in {"AddShare", "StoreWorkbase"} /\ Taken(c) /\ calls[c].delivered) =>
            (HandleResult(calls[c]).tag = "ok" <=> calls[c].collab = "ok")

(* C3: commands are dequeued, and replied to, in submission order: the processing
   order is increasing in the submission index, each processed command got its
   reply attempt, and no command submitted earlier is still queued behind a
   processed one. *)
C3_SubmissionOrder ==
    /\ \A i, j \in DOMAIN processed : i < j => processed[i] < processed[j]
    /\ \A i \in DOMAIN processed :
        /\ calls[processed[i]].sends = 1
        /\ \A d \in 1..(processed[i] - 1) : calls[d].phase # "queued"

C3_Witness ==
    /\ Len(processed) >= 2
    /\ \A i \in DOMAIN processed : calls[processed[i]].delivered

(* C4: when every NodeHandle is dropped and no Shutdown was ever sent, the actor
   ends by observing the closed channel: it has sent on the termination channel
   exactly once and requested no disconnect. *)
C4_HandlesDroppedStops ==
    (handles = 0 /\ Terminated /\ \A c \in DOMAIN calls : calls[c].kind # "Shutdown") =>
        /\ stopping.sends = 1
        /\ disconnected = {}

InvCount(p) == Cardinality({i \in DOMAIN sent : sent[i].to = p /\ sent[i].msg.type = "Inventory"})

(* C5 as claimed: over the whole run a peer is sent at most one Inventory message. *)
C5_AtMostOneInventory == \A p \in Peers : InvCount(p) <= 1

(* C5 amended: a peer is sent at most one Inventory message per
   connection-established event dispatched for it, and none at any other time. *)
C5_OneInventoryPerEstablished ==
    /\ [](\A p \in Peers : InvCount(p) <= established[p])
    /\ [][\A p \in Peers :
            InvCount(p)' # InvCount(p) =>
                /\ established'[p] = established[p] + 1
                /\ InvCount(p)' = InvCount(p) + 1]_vars

C5_Witness == \E p \in Peers : InvCount(p) = 2 /\ established[p] = 2 /\ conns[p] = 1

(* C6: dispatching a connection-established event for P sends exactly one direct
   message, Inventory{have_shares: [tip]} to P, when the tip is present, and no
   message at all when it is absent. *)
C6_InventoryOnEstablished ==
    [][\A p \in Peers :
        established'[p] = established[p] + 1 =>
            IF tip # NoTip
            THEN sent' = Append(sent, [to |-> p, msg |-> [type |-> "Inventory", have_shares |-> <<tip>>]])
            ELSE sent' = sent]_vars

C6_Witness ==
    /\ established = [p \in Peers |-> IF p = "p1" THEN 2 ELSE 0]
    /\ Len(sent) = 1
    /\ sent[1] = [to |-> "p1", msg |-> [type |-> "Inventory", have_shares |-> <<"s1">>]]

(* C7: once the actor has terminated, a call made afterwards fails at the send;
   a command still queued at that moment is never executed and its caller gets a
   communication error; nothing is processed any more. *)
C7_TerminatedFailsCalls ==
    /\ [](Terminated =>
            /\ command_q = <<>>
            /\ \A c \in DOMAIN calls :
                /\ calls[c].phase # "queued"
                /\ calls[c].phase = "dropped" =>
                    /\ calls[c].sends = 0
                    /\ calls[c].collab = "none"
                    /\ \A i \in DOMAIN processed : processed[i] # c
                    /\ calls[c].rx => HandleResult(calls[c]).tag = "comm_err")
    /\ [][Terminated =>
            /\ UNCHANGED <<last_event, construction, actor, command_q, stopping, nodeVars, processed>>
            /\ \A c \in DOMAIN calls' :
                IF c \in DOMAIN calls
                THEN calls'[c].phase \in {calls[c].phase, "failed"}
                ELSE HandleResult(calls'[c]).tag = "comm_err"]_vars

C7_Witness ==
    /\ Terminated
    /\ \E c, d \in DOMAIN calls :
        /\ calls[c].phase = "dropped" /\ calls[c].rx
        /\ calls[d].phase = "failed"

PhaseOf(c) == IF c \in DOMAIN calls THEN calls[c].phase ELSE "none"

InQueue(c) == \E i \in DOMAIN command_q : command_q[i] = c

(* C8: the command channel never holds more than 32 commands; a call made while
   it is full waits, and is queued only once a slot is free; a queued command
   is in the channel exactly once until the actor takes it, and while the actor
   runs every call, waiting or queued, is taken eventually. *)
C8_BoundedQueueNoDrop ==
    /\ [](Len(command_q) <= 32)
    /\ [](actor = "Running" =>
            /\ \A c \in DOMAIN calls : calls[c].phase = "queued" <=> InQueue(c)
            /\ \A i, j \in DOMAIN command_q : command_q[i] = command_q[j] => i = j)
    /\ [][\A c \in DOMAIN calls' :
            /\ (c \notin DOMAIN calls /\ actor = "Running" /\ Len(command_q) = 32) =>
                    (calls'[c].phase = "sending" /\ command_q' = command_q)
            /\ (c \in DOMAIN calls /\ calls[c].phase = "sending" /\ calls'[c].phase = "queued") =>
                    (Len(command_q) < 32 /\ command_q' = Append(command_q, c))]_vars
    /\ \A c \in 1..BurstCalls :
            (PhaseOf(c) \in {"sending", "queued"}) ~> (PhaseOf(c) = "taken" \/ actor # "Running")

C8_Witness == Len(command_q) = 32 /\ Waiters # {} /\ processed # <<>>

(* C9: the reply to SendGossip and to SendToPeer is always success, whatever the
   publish or the delivery did, and the actor is still running afterwards. *)
C9_FireAndForgetKeepsRunning ==
    [][\A c \in DOMAIN calls :
        (calls[c].kind \in {"SendGossip", "SendToPeer"}
            /\ calls[c].phase = "queued" /\ calls'[c].phase = "taken") =>
                /\ calls'[c].reply = [tag |-> "unit", peers |-> {}]
                /\ actor' = "Running"]_vars

(* C10: the reply to GetPeers is exactly the set of peers connected when the
   command is processed, the caller receives that set, and processing it
   changes nothing of the node. *)
C10_GetPeersSnapshot ==
    /\ [][\A c \in DOMAIN calls :
            (calls[c].kind = "GetPeers" /\ calls[c].phase = "queued" /\ calls'[c].phase = "taken") =>
                /\ calls'[c].reply = [tag |-> "peers", peers |-> {p \in Peers : conns[p] > 0}]
                /\ calls'[c].sends = 1
                /\ UNCHANGED nodeVars]_vars
    /\ [](\A c \in DOMAIN calls :
            (calls[c].kind = "GetPeers" /\ Taken(c) /\ calls[c].delivered) =>
                HandleResult(calls[c]) = [tag |-> "ok", peers |-> calls[c].reply.peers])

C10_Witness ==
    /\ established = [p \in Peers |-> 1]
    /\ conns = [p \in Peers |-> 1]
    /\ \E c \in DOMAIN calls :
        /\ calls[c].kind = "GetPeers" /\ Taken(c)
        /\ HandleResult(calls[c]) = [tag |-> "ok", peers |-> {"p1", "p2"}]

(* C11: when Node construction fails on the listen address, NodeHandle::new
   returns the failure as an error value: no actor is spawned, no handle exists,
   and the caller was not aborted by a panic. *)
C11_ConstructionFailureReturned ==
    construction # "returned_ok" =>
        /\ construction = "returned_err"
        /\ actor = "NotSpawned"
        /\ handles = 0

Processed == {processed[i] : i \in DOMAIN processed}

(* C12: every command the actor dequeues gets exactly one reply send attempt, on
   its own reply slot: a call's slot has been sent on once if the call was
   dequeued and never otherwise, and the step that dequeues a command sends on
   the slot of that command and touches no other slot. *)
C12_ExactlyOneReplyAttempt ==
    /\ [](\A c \in DOMAIN calls : calls[c].sends = IF c \in Processed THEN 1 ELSE 0)
    /\ [][processed' # processed =>
            \E c \in DOMAIN calls :
                /\ c = Head(command_q)
                /\ processed' = Append(processed, c)
                /\ calls[c].sends = 0 /\ calls'[c].sends = 1
                /\ calls'[c].reply # NoReply
                /\ \A d \in DOMAIN calls \ {c} :
                    /\ calls'[d].sends = calls[d].sends
                    /\ calls'[d].reply = calls[d].reply
                    /\ calls'[d].delivered = calls[d].delivered]_vars

C12_Witness ==
    /\ Len(processed) = 3
    /\ {calls[c].kind : c \in Processed} = {"AddShare", "SendToPeer", "Shutdown"}
    /\ \A c \in Processed : calls[c].sends = 1

(* C13: when the caller has dropped its reply receiver, the reply send of every
   command variant is fatal: the step that dequeues the command ends the actor,
   the side effect of the command is in place (the collaborator was called, the
   gossip published, the message handed to the swarm, the disconnects requested),
   every command still queued is dropped unexecuted, and from then on neither a
   command nor a network event is processed. *)
C13_AbandonedReplyIsFatal ==
    /\ [][\A c \in DOMAIN calls :
            (calls[c].phase = "queued" /\ calls'[c].phase = "taken" /\ ~calls[c].rx) =>
                /\ actor' = "Panicked"
                /\ ~calls'[c].delivered
                /\ command_q' = <<>>
                /\ \A d \in DOMAIN calls \ {c} :
                        calls[d].phase = "queued" =>
                            (calls'[d].phase = "dropped" /\ calls'[d].sends = 0 /\ calls'[d].collab = "none")
                /\ calls[c].kind \in {"AddShare", "StoreWorkbase"} => calls'[c].collab \in {"ok", "err"}
                /\ calls[c].kind = "SendGossip" => published' = published + 1
                /\ calls[c].kind = "SendToPeer" =>
                        sent' = Append(sent, [to |-> calls[c].peer, msg |-> AppMessage])
                /\ calls[c].kind = "Shutdown" =>
                        disconnected' = disconnected \cup {p \in Peers : conns[p] > 0}]_vars
    /\ [][actor = "Panicked" =>
            /\ UNCHANGED <<actor, command_q, nodeVars, processed>>
            /\ \A d \in DOMAIN calls : calls'[d].phase # "taken" \/ calls[d].phase = "taken"]_vars

C13_Witness ==
    /\ actor = "Panicked"
    /\ \E c, d \in DOMAIN calls :
        /\ calls[c].kind = "AddShare" /\ Taken(c) /\ ~calls[c].delivered /\ calls[c].collab = "ok"
        /\ tip = calls[c].share
        /\ calls[d].phase = "dropped"

CmdTaken == processed' # processed

EventSeen == netVars' # netVars

HandleSide == handles' # handles \/ clones' # clones \/ (calls' # calls /\ ~CmdTaken)

AppCount == Cardinality({i \in DOMAIN sent : sent[i].msg.type = "App"})

KindCount(k) == Cardinality({c \in Processed : calls[c].kind = k})

(* C14: the actor handles one item per step, a command or a network event and
   never both; a step of a handle or of its caller (a call, a clone, a drop, an
   abandoned future) changes nothing of the node, so every change of the node is
   made by a running actor handling that one item; and the node's outputs are
   exactly those of the items processed so far, one after another. *)
C14_ActorAloneOneItem ==
    /\ [][/\ ~(CmdTaken /\ EventSeen)
          /\ CmdTaken =>
                /\ processed' = Append(processed, Head(command_q))
                /\ UNCHANGED <<handles, clones>>
          /\ EventSeen =>
                UNCHANGED <<actor, handles, clones, calls, command_q, stopping, tip,
                            published, disconnected, processed>>
          /\ HandleSide => UNCHANGED <<actor, stopping, nodeVars, processed>>
          /\ nodeVars' # nodeVars => (actor = "Running" /\ (CmdTaken \/ EventSeen))]_vars
    /\ [](published = KindCount("SendGossip"))
    /\ [](AppCount = KindCount("SendToPeer"))
    /\ [](Len(sent) = AppCount + InvCount("p1") + InvCount("p2"))

C14_Witness ==
    /\ clones >= 1
    /\ \E c \in Processed : calls[c].kind = "SendGossip"
    /\ \E p \in Peers : established[p] = 1 /\ InvCount(p) = 1

Dispatched == last_event' # last_event

(* C15: dispatching a network event leaves the actor running, takes no command
   from the channel, sends no reply and does not touch the termination channel;
   an event that is only logged (listening started, kademlia, gossipsub,
   request-response, the remaining mdns and identify events, unmatched swarm
   events) changes nothing of the node at all. *)
C15_EventsLeaveActorAlone ==
    [][Dispatched =>
        /\ actor = "Running" /\ actor' = "Running"
        /\ UNCHANGED <<handles, clones, calls, command_q, stopping, processed,
                       tip, published, disconnected>>
        /\ last_event'.kind \in LogOnly \cup {"NewListenAddr"} => UNCHANGED nodeVars]_vars

C15_Witness ==
    /\ last_event.kind = "Gossipsub"
    /\ command_q # <<>>
    /\ \E p \in Peers : established[p] = 1 /\ conns[p] = 1

GenericError(kind) ==
    IF kind = "AddShare" THEN "Error adding share to chain" ELSE "Error storing workbase"

(* C16: processing AddShare or StoreWorkbase calls the collaborator exactly once;
   the reply is success when the collaborator succeeded and otherwise the fixed
   generic error of the command, which does not carry the collaborator's cause;
   and after a collaborator failure the actor is still running. *)
C16_CollaboratorErrorMasked ==
    [][\A c \in DOMAIN calls :
        (calls[c].kind \in {"AddShare", "StoreWorkbase"}
            /\ calls[c].phase = "queued" /\ calls'[c].phase = "taken") =>
                /\ calls[c].attempts = 0 /\ calls'[c].attempts = 1
                /\ calls'[c].collab = "ok" => calls'[c].reply = OkReply
                /\ calls'[c].collab # "ok" =>
                        /\ calls'[c].reply = ErrReply(GenericError(calls[c].kind))
                        /\ calls'[c].reply.error # calls'[c].cause
                        /\ actor' = "Running"]_vars

(* C17: on a discovery event, per discovered (peer, address) pair in list order:
   a pair whose peer is connected is neither dialled nor registered; any other
   pair is dialled exactly once, at its address, and its address is registered
   exactly when that dial call succeeded (dialed records what each dial call
   returned); nothing else of the node changes. *)
C17_DiscoveryDialsUnconnected ==
    [][(Dispatched /\ last_event'.kind = "MdnsDiscovered") =>
        LET list == last_event'.list
            Idx == {i \in 1..Len(list) : conns[list[i][1]] = 0}
            Rank(i) == Cardinality({j \in Idx : j <= i})
        IN  /\ Len(dialed') = Len(dialed) + Cardinality(Idx)
            /\ SubSeq(dialed', 1, Len(dialed)) = dialed
            /\ \A i \in Idx :
                    /\ dialed'[Len(dialed) + Rank(i)].peer = list[i][1]
                    /\ dialed'[Len(dialed) + Rank(i)].addr = list[i][2]
            /\ routing' = routing \cup {<<list[i][1], list[i][2]>> :
                                            i \in {j \in Idx : dialed'[Len(dialed) + Rank(j)].ok}}
            /\ UNCHANGED <<actor, conns, established, tip, sent, published, disconnected>>]_vars

C17_Witness ==
    /\ last_event.kind = "MdnsDiscovered"
    /\ last_event.list = <<<<"p1", "a1">>, <<"p2", "a1">>>>
    /\ conns["p1"] = 1 /\ conns["p2"] = 0
    /\ dialed = <<[peer |-> "p2", addr |-> "a1", ok |-> FALSE]>>
    /\ routing = {}

(* C18: dispatching a connection-closed event for P leaves no address-book entry
   for P, whoever registered it (a discovery dial or an identify event) and
   whether or not other connections to P remain, and leaves the entries of
   every other peer as they were. *)
C18_ClosedPurgesRouting ==
    [][\A p \in Peers :
        conns'[p] < conns[p] =>
            /\ \A e \in routing' : e[1] # p
            /\ \A e \in routing : e[1] # p => e \in routing'
            /\ routing' \subseteq routing]_vars

C18_Witness ==
    /\ established["p1"] = 1 /\ conns["p1"] = 0
    /\ dialed = <<[peer |-> "p1", addr |-> "a1", ok |-> TRUE],
                  [peer |-> "p2", addr |-> "a1", ok |-> TRUE]>>
    /\ routing = {<<"p2", "a1">>}

SendsOf(c) == IF c \in DOMAIN calls THEN calls[c].sends ELSE 0

(* C19: with the command branch taken eventually whenever it stays ready, every
   command that is in the channel while the actor runs is eventually dequeued
   and replied to, or the actor stops, although the swarm has an event ready at
   every iteration. *)
C19_CommandsNotStarved ==
    \A c \in 1..MaxInputs :
        (PhaseOf(c) = "queued" /\ actor = "Running")
            ~> ((PhaseOf(c) = "taken" /\ SendsOf(c) = 1) \/ actor # "Running")

C19_Witness ==
    /\ last_event = [kind |-> "Gossipsub", n |-> 0]
    /\ command_q # <<>>
    /\ \E c \in Processed : calls[c].delivered
    /\ actor = "Running"

====
